---- MODULE Spec2Model ----
(***************************************************************************)
(* A model of staves (src/staves/cli.py): the orchestrator `main` and the  *)
(* components it sequences.  Text is modelled as a sequence of tokens (a   *)
(* token is a TLA+ string standing for a run of characters), so that       *)
(* formatting, joining and splitting are computed and not assumed.         *)
(***************************************************************************)
EXTENDS Naturals, Sequences, FiniteSets, TLC

VARIABLES
    df_annotations,  \* _create_dockerfile: the annotations mapping, in insertion order
    df_cmd,          \* _create_dockerfile: the command vector
    df_doc,          \* the returned build-instruction document
    df_pc,           \* "start" before the call, "done" after it
    st_tree,         \* _copy_stdlib: /usr/lib/gcc as os.walk yields it, a sequence of
                     \* directories, each the set of its file names
    st_flag,         \* _copy_stdlib: copy_libstdcpp
    st_result,       \* the outcome: the exception raised and the files copied
    st_pc,
    pk_fs,           \* _write_package_config: the files under /etc/portage, path -> content
    pk_last,         \* per category and package: the values last written and how
                     \* many writes there were (counted up to 2)
    pk_error,        \* the exception the last call raised
    cp_rfs,          \* _copy_to_rootfs: the staging root, relative path -> node
    cp_error,        \* the exception the last call raised
    cp_existed,      \* whether the last call copied to a destination that existed
    cp_links,        \* the symbolic links copied so far, <<host path, destination>>
    pc,              \* main: the statement the orchestrator is at
    args,            \* main: the command line options
    config,          \* main: the configuration document (popped from as main goes)
    queue,           \* main: what the running for-loop still has to visit
    calls,           \* the external commands run so far, in order
    failed,          \* the steps one of whose commands exited non-zero ("repository":
                     \* some repository command)
    error,           \* the exception that ended main and the step that raised it
    portage,         \* the files main wrote under /etc/portage, path -> content
    pkg_calls,       \* the packages _write_package_config was called for, in order
    rootfs,          \* what the staging root holds
    image            \* what the image engine was asked to build

dfVars == <<df_annotations, df_cmd, df_doc, df_pc>>
stVars == <<st_tree, st_flag, st_result, st_pc>>
pkVars == <<pk_fs, pk_last, pk_error>>
cpVars == <<cp_rfs, cp_error, cp_existed, cp_links>>
mainVars == <<pc, args, config, queue, calls, failed, error, portage, pkg_calls,
              rootfs, image>>

----------------------------------------------------------------------------
(* Bounds *)

MaxAnnotations == 2
MaxCmd == 2
MaxDirs == 3
MaxValues == 2
MaxRepos == 2

----------------------------------------------------------------------------
(* Text helpers *)

\* str.join: the pieces (token sequences) with sep between neighbours.
RECURSIVE Join(_, _)
Join(pieces, sep) ==
    IF pieces = <<>> THEN <<>>
    ELSE IF Len(pieces) = 1 THEN Head(pieces)
    ELSE Head(pieces) \o sep \o Join(Tail(pieces), sep)

\* str.split on one separator token: the pieces between the separators.
RECURSIVE Split(_, _)
Split(text, sep) ==
    IF \A i \in DOMAIN text : text[i] # sep THEN <<text>>
    ELSE LET i == CHOOSE j \in DOMAIN text :
                      text[j] = sep /\ \A k \in 1..(j - 1) : text[k] # sep
         IN  <<SubSeq(text, 1, i - 1)>> \o Split(SubSeq(text, i + 1, Len(text)), sep)

\* piece occurs in text as a contiguous run of tokens.
Contains(text, piece) ==
    \E i \in 0..(Len(text) - Len(piece)) :
        SubSeq(text, i + 1, i + Len(piece)) = piece

linesep == "\n"
Indent == "    "
IsBlank(tok) == tok \in {" ", Indent}

----------------------------------------------------------------------------
(* _create_dockerfile (cli.py 58-69) *)

AnnotationKeys == {"a", "c"}
AnnotationValues == {"b", "d"}
Words == {"run", "-v"}

\* f'"{key}"="{value}"'
LabelPair(kv) == <<"\"", kv[1], "\"", "=", "\"", kv[2], "\"">>

label_string(annotations) ==
    Join([i \in DOMAIN annotations |-> LabelPair(annotations[i])], <<" ">>)

\* '\"{}\"'.format(c)
QuotedElement(c) == <<"\"", c, "\"">>

command_string(cmd) ==
    Join([i \in DOMAIN cmd |-> QuotedElement(cmd[i])], <<",", " ">>)

\* `if label_string:` with the condition always taken.
EmitLabelAlways(ls) == TRUE

\* `if label_string:` (a non-empty string is truthy).
EmitLabel(ls) == ls # <<>>

\* The label line is a plain (not f-) string literal: the braces and the name
\* between them are emitted as written, label_string is not substituted.
LabelLine(ls) == <<"LABEL", " ", "{label_string}", linesep>>

_create_dockerfile(annotations, cmd) ==
    LET ls == label_string(annotations)
        cs == command_string(cmd)
        dockerfile0 == <<>>
        dockerfile1 == IF EmitLabel(ls) THEN dockerfile0 \o LabelLine(ls)
                       ELSE dockerfile0
    IN  dockerfile1
        \o <<Indent, "FROM", " ", "scratch", linesep>>
        \o <<Indent, "COPY", " ", "rootfs", " ", "/", linesep>>
        \o <<Indent, "ENTRYPOINT", " ", "[">> \o cs \o <<"]", linesep>>
        \o <<Indent>>

\* Reading a document back: its lines, and each line's instruction word.
Lines(doc) == Split(doc, linesep)

RECURSIVE StripBlank(_)
StripBlank(line) ==
    IF line # <<>> /\ IsBlank(Head(line)) THEN StripBlank(Tail(line)) ELSE line

Instruction(line) == IF StripBlank(line) = <<>> THEN "" ELSE Head(StripBlank(line))

RECURSIVE InstructionsOf(_)
InstructionsOf(lines) ==
    IF lines = <<>> THEN <<>>
    ELSE IF Instruction(Head(lines)) = "" THEN InstructionsOf(Tail(lines))
    ELSE <<Instruction(Head(lines))>> \o InstructionsOf(Tail(lines))

Instructions(doc) == InstructionsOf(Lines(doc))

\* The text between the brackets of a line, <<>> when it has none.
Bracketed(line) ==
    IF \E i \in DOMAIN line : line[i] = "[" /\ line[Len(line)] = "]"
    THEN LET i == CHOOSE j \in DOMAIN line : line[j] = "["
         IN  SubSeq(line, i + 1, Len(line) - 1)
    ELSE <<>>

\* Mappings with distinct keys, as sequences of <<key, value>> in insertion order.
AnnotationMaps ==
    {m \in UNION {[1..n -> AnnotationKeys \X AnnotationValues] : n \in 0..MaxAnnotations} :
        \A i, j \in DOMAIN m : i # j => m[i][1] # m[j][1]}

CommandVectors == UNION {[1..n -> Words] : n \in 0..MaxCmd}

CreateDockerfile ==
    /\ UNCHANGED <<stVars, pkVars, cpVars, mainVars>>
    /\ df_pc = "start"
    /\ df_doc' = _create_dockerfile(df_annotations, df_cmd)
    /\ df_pc' = "done"
    /\ UNCHANGED <<df_annotations, df_cmd>>

----------------------------------------------------------------------------
(* _copy_stdlib (cli.py 116-133) *)

libgcc == "libgcc_s.so.1"
libstdcpp == "libstdc++.so.6"
NoPath == 0     \* None

\* The loop over os.walk for one name: the directory of the last match, NoPath
\* when no directory holds the name.
RECURSIVE WalkFind(_, _, _, _)
WalkFind(tree, name, i, found) ==
    IF i > Len(tree) THEN found
    ELSE WalkFind(tree, name, i + 1, IF name \in tree[i] THEN i ELSE found)

\* shutil.copy(src, rootfs/usr/lib): the file lands in the library directory
\* under its own name.
StdlibCopy(dir, name) == [src |-> <<dir, name>>, dst |-> <<"usr", "lib", name>>]

\* _copy_stdlib demanding libstdc++ whether or not the flag is set.
_copy_stdlib_unguarded(tree, copy_libstdcpp) ==
    LET libgcc_path == WalkFind(tree, libgcc, 1, NoPath)
        libstdcpp_path == WalkFind(tree, libstdcpp, 1, NoPath)
    IN  IF libgcc_path = NoPath
        THEN [error |-> "StavesError", copied |-> {}]
        ELSE IF libstdcpp_path = NoPath
             THEN [error |-> "StavesError", copied |-> {StdlibCopy(libgcc_path, libgcc)}]
             ELSE [error |-> "none",
                   copied |-> {StdlibCopy(libgcc_path, libgcc),
                               StdlibCopy(libstdcpp_path, libstdcpp)}]

_copy_stdlib(tree, copy_libstdcpp) ==
    LET libgcc_path == WalkFind(tree, libgcc, 1, NoPath)
        libstdcpp_path == WalkFind(tree, libstdcpp, 1, NoPath)
    IN  IF libgcc_path = NoPath
        THEN [error |-> "StavesError", copied |-> {}]
        ELSE IF copy_libstdcpp
             THEN IF libstdcpp_path = NoPath
                  THEN [error |-> "StavesError",
                        copied |-> {StdlibCopy(libgcc_path, libgcc)}]
                  ELSE [error |-> "none",
                        copied |-> {StdlibCopy(libgcc_path, libgcc),
                                    StdlibCopy(libstdcpp_path, libstdcpp)}]
             ELSE [error |-> "none", copied |-> {StdlibCopy(libgcc_path, libgcc)}]

ToolchainTrees == UNION {[1..n -> SUBSET {libgcc, libstdcpp}] : n \in 0..MaxDirs}

NoResult == [error |-> "none", copied |-> {}]

CopyStdlib ==
    /\ UNCHANGED <<dfVars, pkVars, cpVars, mainVars>>
    /\ st_pc = "start"
    /\ st_result' = _copy_stdlib(st_tree, st_flag)
    /\ st_pc' = "done"
    /\ UNCHANGED <<st_tree, st_flag>>

----------------------------------------------------------------------------
(* _write_package_config (cli.py 95-113) *)

\* Package identifiers as token sequences, "/" a token of its own.
Packages == {<<"dev-lang", "/", "python">>, <<"dev-lang">>}

Flags == <<"x", "y", "z", "w">>

\* The lists a category is given: the first n flags, n up to MaxValues.
ValueLists == {SubSeq(Flags, 1, n) : n \in 0..MaxValues}

Categories == {"package.env", "package.accept_keywords", "package.use"}

\* os.path.join('/etc', 'portage', category, *package.split('/')): a path is the
\* sequence of its segments.
package_config_path(category, package) ==
    <<(<<"etc">>), (<<"portage">>), (<<category>>)>> \o Split(package, "/")

IsProperPrefix(p, q) == Len(p) < Len(q) /\ SubSeq(q, 1, Len(p)) = p

\* A directory is what some file lies under.
IsDirectory(fs, path) == \E f \in DOMAIN fs : IsProperPrefix(path, f)

\* os.makedirs(os.path.dirname(path), exist_ok=True) raises when a component of
\* the directory is a file.
MakedirsError(fs, path) ==
    IF \E f \in DOMAIN fs : IsProperPrefix(f, path) THEN "FileExistsError" ELSE "none"

\* open(path, 'w') raises on a directory.
OpenError(fs, path) == IF IsDirectory(fs, path) THEN "IsADirectoryError" ELSE "none"

\* '{} {}{}'.format(package, ' '.join(values), os.linesep)
ConfigLine(package, values) ==
    package \o <<" ">> \o Join([i \in DOMAIN values |-> <<values[i]>>], <<" ">>)
            \o <<linesep>>

\* open(path, 'a'): the text goes after what the file holds.
WriteFileAppend(fs, path, text) ==
    [f \in DOMAIN fs \cup {path} |->
        IF f = path THEN (IF path \in DOMAIN fs THEN fs[path] ELSE <<>>) \o text
        ELSE fs[f]]

\* open(path, 'w') and f.write(text): the file holds the text and nothing else.
WriteFile(fs, path, text) ==
    [f \in DOMAIN fs \cup {path} |-> IF f = path THEN text ELSE fs[f]]

\* One `if values:` block of _write_package_config, from the state st =
\* [fs, error, wrote] the blocks before it left.
WriteCategory(st, category, package, values) ==
    LET path == package_config_path(category, package)
        err == IF MakedirsError(st.fs, path) # "none" THEN MakedirsError(st.fs, path)
               ELSE OpenError(st.fs, path)
    IN  IF st.error # "none" \/ values = <<>> THEN st
        ELSE IF err # "none" THEN [st EXCEPT !.error = err]
        ELSE [fs |-> WriteFile(st.fs, path, ConfigLine(package, values)),
              error |-> "none",
              wrote |-> st.wrote \cup {category}]

_write_package_config(fs, package, env, keywords, use) ==
    WriteCategory(
        WriteCategory(
            WriteCategory([fs |-> fs, error |-> "none", wrote |-> {}],
                          "package.env", package, env),
            "package.accept_keywords", package, keywords),
        "package.use", package, use)

EmptyFs == [f \in {} |-> <<>>]

NoWrite == [values |-> <<>>, n |-> 0]

WritePackageConfig ==
    /\ UNCHANGED <<dfVars, stVars, cpVars, mainVars>>
    /\ \E package \in Packages, env \in ValueLists, keywords \in ValueLists,
       use \in ValueLists :
        LET r == _write_package_config(pk_fs, package, env, keywords, use)
            given == [c \in Categories |->
                         IF c = "package.env" THEN env
                         ELSE IF c = "package.accept_keywords" THEN keywords
                         ELSE use]
        IN  /\ pk_fs' = r.fs
            /\ pk_error' = r.error
            /\ pk_last' = [k \in Categories \X Packages |->
                              IF k[2] = package /\ k[1] \in r.wrote
                              THEN [values |-> given[k[1]],
                                    n |-> IF pk_last[k].n < 2 THEN pk_last[k].n + 1
                                          ELSE 2]
                              ELSE pk_last[k]]

----------------------------------------------------------------------------
(* _copy_to_rootfs (cli.py 168-181) *)

FileNode(data) == [kind |-> "file", data |-> data, to |-> <<>>]
DirNode == [kind |-> "dir", data |-> "", to |-> <<>>]
\* A link holds its target string; `to` is the host path the target resolves to,
\* <<>> for a target that does not resolve.
LinkNode(target, to) == [kind |-> "link", data |-> target, to |-> to]
SocketNode == [kind |-> "socket", data |-> "", to |-> <<>>]

\* The host tree the patterns are matched against, path (from /) -> node.
HostFs ==
    (<<"f">> :> FileNode("F")) @@
    (<<"l">> :> LinkNode("f", <<"f">>)) @@
    (<<"x">> :> LinkNode("nowhere", <<>>)) @@
    (<<"ld">> :> LinkNode("d", <<"d">>)) @@
    (<<"d">> :> DirNode) @@
    (<<"d", "g">> :> FileNode("G")) @@
    (<<"d", "m">> :> LinkNode("g", <<"d", "g">>)) @@
    (<<"e">> :> DirNode) @@
    (<<"e", "x">> :> LinkNode("nowhere", <<>>)) @@
    (<<"s">> :> SocketNode)

\* glob.iglob: a literal pattern matches its path when the path exists (a
\* dangling link included), "dir/*" matches the entries of dir.
Patterns == {"/f", "/l", "/x", "/ld", "/d", "/d/*", "/e", "/s", "/none/*"}

Matches(pattern) ==
    CASE pattern = "/f" -> {<<"f">>}
      [] pattern = "/l" -> {<<"l">>}
      [] pattern = "/x" -> {<<"x">>}
      [] pattern = "/ld" -> {<<"ld">>}
      [] pattern = "/d" -> {<<"d">>}
      [] pattern = "/e" -> {<<"e">>}
      [] pattern = "/s" -> {<<"s">>}
      [] pattern = "/d/*" -> {h \in DOMAIN HostFs : Len(h) = 2 /\ h[1] = "d"}
      [] OTHER -> {}

\* The orders in which a directory's entries may be listed.
Orders(S) == {o \in [1..Cardinality(S) -> S] : \A i, j \in DOMAIN o : i # j => o[i] # o[j]}

\* os.makedirs(os.path.dirname(rootfs_path), exist_ok=True)
ParentBlocked(fs, dest) ==
    \E n \in 1..(Len(dest) - 1) :
        SubSeq(dest, 1, n) \in DOMAIN fs /\ fs[SubSeq(dest, 1, n)].kind # "dir"

WithParents(fs, dest) ==
    [q \in DOMAIN fs \cup {SubSeq(dest, 1, n) : n \in 1..(Len(dest) - 1)} |->
        IF q \in DOMAIN fs THEN fs[q] ELSE DirNode]

\* shutil.copytree(src, dst) with its default symlinks=False: the entries below
\* src; a link among them is followed and its target's content copied as a
\* regular file, and a link whose target does not resolve is reported in the
\* shutil.Error raised once the other entries are copied.  (The tree holds no
\* link to a directory below a directory.)
Below(src) == {c \in DOMAIN HostFs : IsProperPrefix(src, c)}

TreeDangling(src) ==
    {c \in Below(src) : HostFs[c].kind = "link" /\ HostFs[c].to = <<>>}

TreeDest(src, dst, c) == dst \o SubSeq(c, Len(src) + 1, Len(c))

TreeNode(c) ==
    IF HostFs[c].kind = "link" THEN FileNode(HostFs[HostFs[c].to].data) ELSE HostFs[c]

copytree(fs, src, dst) ==
    LET copied == Below(src) \ TreeDangling(src)
    IN  [q \in DOMAIN fs \cup {dst} \cup {TreeDest(src, dst, c) : c \in copied} |->
            IF q \in DOMAIN fs THEN fs[q]
            ELSE IF q = dst THEN DirNode
            ELSE TreeNode(CHOOSE c \in copied : TreeDest(src, dst, c) = q)]

\* shutil.copy(src, dst): into dst under src's name when dst is a directory;
\* an existing regular file is opened for writing and so replaced.
CopyTarget(fs, h, dst) ==
    IF dst \in DOMAIN fs /\ fs[dst].kind = "dir" THEN dst \o <<h[Len(h)]>> ELSE dst

\* One pass of the loop body for the match h, from st = [fs, error, existed,
\* links] as the matches before it left it.
CopyMatch(st, h) ==
    LET rootfs_path == h      \* os.path.join(rootfs, os.path.relpath(host_path, '/'))
        fs == WithParents(st.fs, rootfs_path)
        exists == rootfs_path \in DOMAIN fs
        seen == [st EXCEPT !.existed = st.existed \/ exists]
        kind == HostFs[h].kind
    IN  IF st.error # "none" THEN st
        ELSE IF ParentBlocked(st.fs, rootfs_path)
        THEN [st EXCEPT !.error = "FileExistsError"]
        ELSE IF kind = "link"
        THEN IF exists THEN [seen EXCEPT !.fs = fs, !.error = "FileExistsError"]
             ELSE [seen EXCEPT
                     !.fs = [q \in DOMAIN fs \cup {rootfs_path} |->
                                IF q = rootfs_path
                                THEN LinkNode(HostFs[h].data, HostFs[h].to)
                                ELSE fs[q]],
                     !.links = st.links \cup {<<h, rootfs_path>>}]
        ELSE IF kind = "dir"
        THEN IF exists THEN [seen EXCEPT !.fs = fs, !.error = "FileExistsError"]
             ELSE [seen EXCEPT
                     !.fs = copytree(fs, h, rootfs_path),
                     !.error = IF TreeDangling(h) # {} THEN "shutil.Error" ELSE "none",
                     !.links = st.links \cup
                         {<<c, TreeDest(h, rootfs_path, c)>> :
                             c \in {b \in Below(h) \ TreeDangling(h) :
                                        HostFs[b].kind = "link"}}]
        ELSE IF kind = "file"
        THEN LET target == CopyTarget(fs, h, rootfs_path)
             IN  IF target \in DOMAIN fs /\ fs[target].kind = "dir"
                 THEN [seen EXCEPT !.fs = fs, !.error = "IsADirectoryError"]
                 ELSE IF target \in DOMAIN fs /\ fs[target].kind = "link"
                 THEN [seen EXCEPT !.fs = fs]     \* written through the link
                 ELSE [seen EXCEPT
                         !.fs = [q \in DOMAIN fs \cup {target} |->
                                    IF q = target THEN FileNode(HostFs[h].data)
                                    ELSE fs[q]]]
        ELSE [seen EXCEPT !.fs = fs, !.error = "StavesError"]

RECURSIVE CopyMatches(_, _)
CopyMatches(st, hs) ==
    IF hs = <<>> THEN st ELSE CopyMatches(CopyMatch(st, Head(hs)), Tail(hs))

_copy_to_rootfs(fs, links, globs) ==
    CopyMatches([fs |-> fs, error |-> "none", existed |-> FALSE, links |-> links], globs)

\* What the staging root may hold before a copy: nothing, or something an
\* earlier step or an earlier run left at a destination.
StagingRoots ==
    { [q \in {} |-> DirNode],
      (<<"f">> :> FileNode("OLD")),
      (<<"f">> :> DirNode),
      (<<"d">> :> DirNode),
      (<<"d">> :> FileNode("OLD")) }

CopyToRootfs ==
    /\ UNCHANGED <<dfVars, stVars, pkVars, mainVars>>
    /\ \E path \in Patterns :
        \E globs \in Orders(Matches(path)) :
            LET r == _copy_to_rootfs(cp_rfs, cp_links, globs)
            IN  /\ cp_rfs' = r.fs
                /\ cp_error' = r.error
                /\ cp_existed' = r.existed
                /\ cp_links' = r.links

----------------------------------------------------------------------------
(* _write_env (cli.py 85-92) *)

\* open(path, 'a') and writelines: the lines go after what the file holds.
AppendFile(fs, path, text) ==
    [f \in DOMAIN fs \cup {path} |->
        IF f = path THEN (IF path \in DOMAIN fs THEN fs[path] ELSE <<>>) \o text
        ELSE fs[f]]

\* '{}="{}"{}'.format(k, v, os.linesep) for each variable.
RECURSIVE EnvLines(_)
EnvLines(env_vars) ==
    IF env_vars = <<>> THEN <<>>
    ELSE <<Head(env_vars)[1], "=", "\"", Head(env_vars)[2], "\"", linesep>>
         \o EnvLines(Tail(env_vars))

_write_env(fs, env_vars, name) ==
    LET conf_path == IF name # ""
                     THEN <<(<<"etc">>), (<<"portage">>), (<<"env">>), (<<name>>)>>
                     ELSE <<(<<"etc">>), (<<"portage">>), (<<"make.conf">>)>>
    IN  AppendFile(fs, conf_path, EnvLines(env_vars))

----------------------------------------------------------------------------
(* _add_repository (cli.py 136-141) *)

ExitCodes == {0, 1}

RepositoryNames == <<"overlay1", "overlay2", "overlay3", "overlay4">>

\* _add_repository running the sync only when the add/enable exited 0.
_add_repository_checked(name, sync_type, uri, rc) ==
    (IF uri # "" /\ sync_type # ""
     THEN <<(<<"eselect", "repository", "add", name, sync_type, uri>>)>>
     ELSE <<(<<"eselect", "repository", "enable", name>>)>>)
    \o (IF rc = 0 THEN <<(<<"emaint", "sync", "--repo", name>>)>> ELSE <<>>)

\* The commands _add_repository runs, rc the exit status of the first: the
\* status is not looked at.
_add_repository(name, sync_type, uri, rc) ==
    (IF uri # "" /\ sync_type # ""
     THEN <<(<<"eselect", "repository", "add", name, sync_type, uri>>)>>
     ELSE <<(<<"eselect", "repository", "enable", name>>)>>)
    \o <<(<<"emaint", "sync", "--repo", name>>)>>

----------------------------------------------------------------------------
(* main (cli.py 195-253) and the steps it calls *)

\* A mapping-valued top-level entry of the document: its key (a token
\* sequence, as package identifiers are) and its items, each [k, v, inner]: v
\* the item's list (or its one scalar), inner the items of a nested table.
Item(k, v) == [k |-> k, v |-> v, inner |-> <<>>]
Nested(k, inner) == [k |-> k, v |-> <<>>, inner |-> inner]
Table(key, items) == [key |-> key, items |-> items]

EnvTable ==
    Table(<<"env">>, <<Item("CFLAGS", <<"-O2">>),
                       Nested("nocache", <<(<<"FEATURES", "-buildpkg">>)>>)>>)
LocaleTable ==
    Table(<<"locale">>, <<Item("name", <<"en_US">>), Item("charset", <<"UTF-8">>)>>)
PackageTable ==
    Table(<<"dev-lang", "/", "python">>, <<Item("use", <<"x", "y">>)>>)

AnnotationTables ==
    { Table(<<"annotations">>, <<Item("a", <<"b">>)>>),
      Table(<<"annotations">>, <<Item("use", <<"b">>)>>) }

\* The documents: with or without the env and locale tables, a package table
\* and an annotations table, in document order.
TableLists ==
    { el \o p \o a :
        el \in {<<>>, <<EnvTable, LocaleTable>>},
        p \in {<<>>, <<PackageTable>>},
        a \in {<<>>} \cup {<<t>> : t \in AnnotationTables} }

Repositories ==
    UNION { { [i \in 1..n |-> [name |-> RepositoryNames[i],
                               type |-> k[i][1], uri |-> k[i][2]]] :
                k \in [1..n -> {"", "git"} \X {"", "https://overlay"}] } :
            n \in 0..MaxRepos }

Configs ==
    [name : {"img"}, command : {<<"run">>}, packages : {<<"app">>},
     has_repositories : BOOLEAN, repositories : Repositories, tables : TableLists]

Libcs == {"", "sys-libs/musl", "sys-libs/glibc"}
\* 'musl' in libc, 'glibc' in libc, over Libcs.
IsMusl(libc) == libc = "sys-libs/musl"
IsGlibc(libc) == libc = "sys-libs/glibc"

Args ==
    [version : {"1"}, libc : Libcs, stdlib : BOOLEAN, create_builder : BOOLEAN,
     packaging : {"none", "docker"}]

HasTable(cfg, key) == \E i \in DOMAIN cfg.tables : cfg.tables[i].key = key
GetTable(cfg, key) == cfg.tables[CHOOSE i \in DOMAIN cfg.tables : cfg.tables[i].key = key]

\* config.pop(key): the document without the entry.
RECURSIVE Without(_, _)
Without(tables, key) ==
    IF tables = <<>> THEN <<>>
    ELSE IF Head(tables).key = key THEN Without(Tail(tables), key)
    ELSE <<Head(tables)>> \o Without(Tail(tables), key)

Pop(cfg, key) == [cfg EXCEPT !.tables = Without(cfg.tables, key)]

RECURSIVE SelectItems(_, _)
SelectItems(items, nested) ==
    IF items = <<>> THEN <<>>
    ELSE IF (Head(items).inner # <<>>) = nested
         THEN <<Head(items)>> \o SelectItems(Tail(items), nested)
         ELSE SelectItems(Tail(items), nested)

NoError == [kind |-> "none", at |-> "none"]
NoImage == [tag |-> <<>>, dockerfile |-> <<>>, rootfs |-> {}]

\* What the variables of main hold while a component is run on its own.
NoArgs ==
    [version |-> "1", libc |-> "", stdlib |-> FALSE, create_builder |-> FALSE,
     packaging |-> "none"]
NoConfig ==
    [name |-> "img", command |-> <<"run">>, packages |-> <<"app">>,
     has_repositories |-> FALSE, repositories |-> <<>>, tables |-> <<>>]

\* An exception raised in a step that main goes past as if it had returned.
PropagateSwallowed(kind, next) == next

\* main wraps no call in try/except: an exception raised in a step ends main,
\* otherwise control goes on to the next statement.
Propagate(kind, next) == IF kind # "none" THEN "aborted" ELSE next

\* Where control goes from step `at`, which raised `kind` ("none": returned).
Goto(at, kind, next) ==
    /\ pc' = Propagate(kind, next)
    /\ error' = IF kind # "none" THEN [kind |-> kind, at |-> at] ELSE error

\* The specialized environments written one after the other (199-205).
RECURSIVE WriteSpecializedEnvs(_, _)
WriteSpecializedEnvs(fs, envs) ==
    IF envs = <<>> THEN fs
    ELSE WriteSpecializedEnvs(_write_env(fs, Head(envs).inner, Head(envs).k), Tail(envs))

MakeConfVars(items) ==
    [i \in DOMAIN SelectItems(items, FALSE) |->
        <<SelectItems(items, FALSE)[i].k, SelectItems(items, FALSE)[i].v[1]>>]

\* 199-205: `if 'env' in config`
WriteEnv ==
    /\ UNCHANGED <<dfVars, stVars, pkVars, cpVars>>
    /\ pc = "env"
    /\ IF HasTable(config, <<"env">>)
       THEN LET env == GetTable(config, <<"env">>).items
            IN  /\ portage' = WriteSpecializedEnvs(
                                 _write_env(portage, MakeConfVars(env), ""),
                                 SelectItems(env, TRUE))
                /\ config' = Pop(config, <<"env">>)
       ELSE UNCHANGED <<portage, config>>
    /\ Goto("env", "none", "repositories")
    /\ UNCHANGED <<args, queue, calls, failed, pkg_calls, rootfs, image>>

\* 206-209: `if 'repositories' in config`, up to the loop.  (The key popped
\* holds a list, which nothing reads again: the document is left as it is.)
ListRepositories ==
    /\ UNCHANGED <<dfVars, stVars, pkVars, cpVars>>
    /\ pc = "repositories"
    /\ IF config.has_repositories
       THEN \E rc \in ExitCodes :
              /\ calls' = Append(calls, <<"eselect", "repository", "list", "-i">>)
              /\ failed' = failed \cup (IF rc # 0 THEN {"repository"} ELSE {})
              /\ queue' = config.repositories
              /\ Goto("repositories", "none",
                      IF config.repositories = <<>> THEN "package_configs"
                      ELSE "add_repository")
       ELSE /\ UNCHANGED <<calls, failed, queue>>
            /\ Goto("repositories", "none", "package_configs")
    /\ UNCHANGED <<args, config, portage, pkg_calls, rootfs, image>>

\* 209-210: one pass of the loop over the repositories
AddRepository ==
    /\ UNCHANGED <<dfVars, stVars, pkVars, cpVars>>
    /\ pc = "add_repository"
    /\ \E rc \in ExitCodes, rc_sync \in ExitCodes :
         LET repository == Head(queue)
             ran == _add_repository(repository.name, repository.type, repository.uri, rc)
         IN  /\ calls' = calls \o ran
             /\ failed' = failed \cup
                    (IF rc # 0 \/ (Len(ran) = 2 /\ rc_sync # 0)
                     THEN {"repository"} ELSE {})
    /\ queue' = Tail(queue)
    /\ Goto("add_repository", "none",
            IF Tail(queue) = <<>> THEN "package_configs" ELSE "add_repository")
    /\ UNCHANGED <<args, config, portage, pkg_calls, rootfs, image>>

\* 211-212: the locale is popped, package_configs are the mapping-valued
\* entries the document still has.
PackageConfigs ==
    /\ UNCHANGED <<dfVars, stVars, pkVars, cpVars>>
    /\ pc = "package_configs"
    /\ config' = Pop(config, <<"locale">>)
    /\ queue' = config'.tables
    /\ Goto("package_configs", "none",
            IF config'.tables = <<>> THEN "packages" ELSE "write_package_config")
    /\ UNCHANGED <<args, calls, failed, portage, pkg_calls, rootfs, image>>

\* _write_package_config(package, **package_config): the keyword a parameter
\* is bound from, <<>> (None) when the mapping has no such key.
Keyword(items, k) ==
    IF \E i \in DOMAIN items : items[i].k = k
    THEN items[CHOOSE i \in DOMAIN items : items[i].k = k].v
    ELSE <<>>

\* A key that names no parameter of the function is a TypeError at the call.
BindError(items) ==
    IF \E i \in DOMAIN items : items[i].k \notin {"env", "keywords", "use"}
    THEN "TypeError" ELSE "none"

\* 213-214: one pass of the loop over package_configs
WritePackageConfigOf ==
    /\ UNCHANGED <<dfVars, stVars, pkVars, cpVars>>
    /\ pc = "write_package_config"
    /\ LET package == Head(queue).key
           package_config == Head(queue).items
           r == _write_package_config(portage, package,
                                      Keyword(package_config, "env"),
                                      Keyword(package_config, "keywords"),
                                      Keyword(package_config, "use"))
           raised == IF BindError(package_config) # "none"
                     THEN BindError(package_config) ELSE r.error
       IN  /\ pkg_calls' = Append(pkg_calls, package)
           /\ portage' = IF BindError(package_config) # "none" THEN portage ELSE r.fs
           /\ Goto("write_package_config", raised,
                   IF Tail(queue) = <<>> THEN "packages" ELSE "write_package_config")
    /\ queue' = Tail(queue)
    /\ UNCHANGED <<args, config, calls, failed, rootfs, image>>

\* 215-217
packages_to_be_installed ==
    config.packages \o (IF args.libc # "" THEN <<args.libc>> ELSE <<>>)

LibPrefixes == {"", "usr/", "usr/local/"}

\* --rootfs_path names a directory that is new, or one an earlier run left
\* its lib links in.
StagingRootsOfMain == {{}, {"lib64/", "lib"}}

\* 218-229: the lib64 directories and lib links, the ownership fix-up of the
\* portage tree (which touches nothing modelled here), and the choice of the
\* builder update.
LinkLibDirs ==
    /\ UNCHANGED <<dfVars, stVars, pkVars, cpVars>>
    /\ pc = "packages"
    /\ IF ~IsMusl(args.libc)
       THEN IF \E p \in LibPrefixes : (p \o "lib") \in rootfs
            THEN /\ UNCHANGED rootfs
                 /\ Goto("packages", "FileExistsError", "aborted")
            ELSE /\ rootfs' = rootfs \cup {p \o "lib64/" : p \in LibPrefixes}
                                     \cup {p \o "lib" : p \in LibPrefixes}
                 /\ Goto("packages", "none",
                         IF args.create_builder THEN "register_staves" ELSE "bdeps")
       ELSE /\ UNCHANGED rootfs
            /\ Goto("packages", "none",
                    IF args.create_builder THEN "register_staves" ELSE "bdeps")
    /\ UNCHANGED <<args, config, queue, calls, failed, portage, pkg_calls, image>>

\* `if call.returncode != 0: raise RootfsError(...)`
Checked(rc) == IF rc # 0 THEN "RootfsError" ELSE "none"

\* _update_builder, 146-149
RegisterStaves ==
    /\ UNCHANGED <<dfVars, stVars, pkVars, cpVars>>
    /\ pc = "register_staves"
    /\ \E rc \in ExitCodes :
         /\ calls' = Append(calls, <<"emerge", "--noreplace", "dev-util/staves">>)
         /\ failed' = failed \cup (IF rc # 0 THEN {"register_staves"} ELSE {})
         /\ Goto("_update_builder", Checked(rc), "update_world")
    /\ UNCHANGED <<args, config, queue, portage, pkg_calls, rootfs, image>>

\* _update_builder, 151-157
UpdateWorld ==
    /\ UNCHANGED <<dfVars, stVars, pkVars, cpVars>>
    /\ pc = "update_world"
    /\ \E rc \in ExitCodes :
         /\ calls' = Append(calls, <<"emerge", "--deep", "--with-bdeps=y", "@world">>)
         /\ failed' = failed \cup (IF rc # 0 THEN {"update_world"} ELSE {})
         /\ Goto("_update_builder", Checked(rc), "bdeps")
    /\ UNCHANGED <<args, config, queue, portage, pkg_calls, rootfs, image>>

\* The build-time step's status not looked at.
BdepsUnchecked(rc) == "none"

\* _create_rootfs, 37-39
BdepsChecked(rc) == IF rc # 0 THEN "RootfsError" ELSE "none"

emerge_bdeps_command == <<"emerge", "--onlydeps", "--emptytree">> \o packages_to_be_installed
emerge_rdeps_command == <<"emerge", "--root", "--root-deps=rdeps">> \o packages_to_be_installed

\* _create_rootfs, 29-39
InstallBdeps ==
    /\ UNCHANGED <<dfVars, stVars, pkVars, cpVars>>
    /\ pc = "bdeps"
    /\ \E rc \in ExitCodes :
         /\ calls' = Append(calls, emerge_bdeps_command)
         /\ failed' = failed \cup (IF rc # 0 THEN {"bdeps"} ELSE {})
         /\ Goto("_create_rootfs", BdepsChecked(rc), "rdeps")
    /\ UNCHANGED <<args, config, queue, portage, pkg_calls, rootfs, image>>

\* _create_rootfs, 41-47
InstallRdeps ==
    /\ UNCHANGED <<dfVars, stVars, pkVars, cpVars>>
    /\ pc = "rdeps"
    /\ \E rc \in ExitCodes :
         /\ calls' = Append(calls, emerge_rdeps_command)
         /\ failed' = failed \cup (IF rc # 0 THEN {"rdeps"} ELSE {})
         /\ rootfs' = IF rc = 0 THEN rootfs \cup {"installed packages"} ELSE rootfs
         /\ Goto("_create_rootfs", Checked(rc), "copy_stdlib")
    /\ UNCHANGED <<args, config, queue, portage, pkg_calls, image>>

AfterStdlib ==
    IF IsGlibc(args.libc) THEN "locale_gen"
    ELSE IF args.create_builder THEN "builder_files" ELSE "package"

\* 231
ProvisionStdlib ==
    /\ UNCHANGED <<dfVars, stVars, pkVars, cpVars>>
    /\ pc = "copy_stdlib"
    /\ \E tree \in [1..1 -> SUBSET {libgcc, libstdcpp}] :
         LET r == _copy_stdlib(tree, args.stdlib)
         IN  /\ rootfs' = rootfs \cup {"usr/lib/" \o c.dst[3] : c \in r.copied}
             /\ Goto("_copy_stdlib", IF r.error # "none" THEN r.error ELSE "none",
                     AfterStdlib)
    /\ UNCHANGED <<args, config, queue, calls, failed, portage, pkg_calls, image>>

\* 232-236: locale.gen, locale-gen (its status not looked at) and the copy of
\* the locale archive, when the archive exists.
GenerateLocale ==
    /\ UNCHANGED <<dfVars, stVars, pkVars, cpVars>>
    /\ pc = "locale_gen"
    /\ calls' = Append(calls, <<"locale-gen">>)
    /\ \E archive \in BOOLEAN :
         rootfs' = IF archive THEN rootfs \cup {"usr/lib/locale/locale-archive"}
                   ELSE rootfs
    /\ Goto("locale_gen", "none",
            IF args.create_builder THEN "builder_files" ELSE "package")
    /\ UNCHANGED <<args, config, queue, failed, portage, pkg_calls, image>>

\* 237-250: the builder files copied into the staging root; a copy may raise
\* (see _copy_to_rootfs), and what was copied before it stays.
CopyBuilderFiles ==
    /\ UNCHANGED <<dfVars, stVars, pkVars, cpVars>>
    /\ pc = "builder_files"
    /\ \E raised \in {"none", "FileExistsError"} :
         /\ rootfs' = IF raised = "none"
                      THEN rootfs \cup {"usr/portage/", "etc/portage/", "var/db/repos/"}
                      ELSE rootfs \cup {"usr/portage/"}
         /\ Goto("builder_files", raised, "package")
    /\ UNCHANGED <<args, config, queue, calls, failed, portage, pkg_calls, image>>

\* config.get('annotations', {}) as _create_dockerfile takes it.
AnnotationsOf(cfg) ==
    IF HasTable(cfg, <<"annotations">>)
    THEN [i \in DOMAIN GetTable(cfg, <<"annotations">>).items |->
            <<GetTable(cfg, <<"annotations">>).items[i].k,
              GetTable(cfg, <<"annotations">>).items[i].v[1]>>]
    ELSE <<>>

\* 251-253 and _docker_image_from_rootfs (72-82)
Package ==
    /\ UNCHANGED <<dfVars, stVars, pkVars, cpVars>>
    /\ pc = "package"
    /\ IF args.packaging = "docker"
       THEN image' = [tag |-> <<config.name, ":", args.version>>,
                      dockerfile |-> _create_dockerfile(AnnotationsOf(config), config.command),
                      rootfs |-> rootfs]
       ELSE UNCHANGED image
    /\ Goto("package", "none", "done")
    /\ UNCHANGED <<args, config, queue, calls, failed, portage, pkg_calls, rootfs>>

Next ==
    \/ WriteEnv
    \/ ListRepositories
    \/ AddRepository
    \/ PackageConfigs
    \/ WritePackageConfigOf
    \/ LinkLibDirs
    \/ RegisterStaves
    \/ UpdateWorld
    \/ InstallBdeps
    \/ InstallRdeps
    \/ ProvisionStdlib
    \/ GenerateLocale
    \/ CopyBuilderFiles
    \/ Package

----------------------------------------------------------------------------

vars == <<dfVars, stVars, pkVars, cpVars, mainVars>>

\* main on a document and options; the components run alone are idle.
Init ==
    /\ pc = "env"
    /\ args \in Args
    /\ config \in {c \in Configs : ~c.has_repositories => c.repositories = <<>>}
    /\ queue = <<>>
    /\ calls = <<>>
    /\ failed = {}
    /\ error = NoError
    /\ portage = EmptyFs
    /\ pkg_calls = <<>>
    /\ rootfs \in StagingRootsOfMain
    /\ image = NoImage
    /\ df_annotations = <<>>
    /\ df_cmd = <<>>
    /\ df_doc = <<>>
    /\ df_pc = "idle"
    /\ st_tree = <<>>
    /\ st_flag = FALSE
    /\ st_result = NoResult
    /\ st_pc = "idle"
    /\ pk_fs = EmptyFs
    /\ pk_last = [k \in Categories \X Packages |-> NoWrite]
    /\ pk_error = "none"
    /\ cp_rfs = [q \in {} |-> DirNode]
    /\ cp_error = "none"
    /\ cp_existed = FALSE
    /\ cp_links = {}

Spec == Init /\ [][Next]_vars

\* _create_dockerfile on every mapping and command vector within the bounds.
InitDockerfile ==
    /\ df_annotations \in AnnotationMaps
    /\ df_cmd \in CommandVectors
    /\ df_doc = <<>>
    /\ df_pc = "start"
    /\ st_tree = <<>>
    /\ st_flag = FALSE
    /\ st_result = NoResult
    /\ st_pc = "idle"
    /\ pk_fs = EmptyFs
    /\ pk_last = [k \in Categories \X Packages |-> NoWrite]
    /\ pk_error = "none"
    /\ cp_rfs = [q \in {} |-> DirNode]
    /\ cp_error = "none"
    /\ cp_existed = FALSE
    /\ cp_links = {}
    /\ pc = "idle"
    /\ args = NoArgs
    /\ config = NoConfig
    /\ queue = <<>>
    /\ calls = <<>>
    /\ failed = {}
    /\ error = NoError
    /\ portage = EmptyFs
    /\ pkg_calls = <<>>
    /\ rootfs = {}
    /\ image = NoImage

SpecDockerfile == InitDockerfile /\ [][CreateDockerfile]_vars

\* _copy_stdlib on every toolchain tree within the bounds, with and without the flag.
InitStdlib ==
    /\ st_tree \in ToolchainTrees
    /\ st_flag \in BOOLEAN
    /\ st_result = NoResult
    /\ st_pc = "start"
    /\ df_annotations = <<>>
    /\ df_cmd = <<>>
    /\ df_doc = <<>>
    /\ df_pc = "idle"
    /\ pk_fs = EmptyFs
    /\ pk_last = [k \in Categories \X Packages |-> NoWrite]
    /\ pk_error = "none"
    /\ cp_rfs = [q \in {} |-> DirNode]
    /\ cp_error = "none"
    /\ cp_existed = FALSE
    /\ cp_links = {}
    /\ pc = "idle"
    /\ args = NoArgs
    /\ config = NoConfig
    /\ queue = <<>>
    /\ calls = <<>>
    /\ failed = {}
    /\ error = NoError
    /\ portage = EmptyFs
    /\ pkg_calls = <<>>
    /\ rootfs = {}
    /\ image = NoImage

SpecStdlib == InitStdlib /\ [][CopyStdlib]_vars

\* _write_package_config called again and again on an empty configuration tree.
InitPackageConfig ==
    /\ pk_fs = EmptyFs
    /\ pk_last = [k \in Categories \X Packages |-> NoWrite]
    /\ pk_error = "none"
    /\ df_annotations = <<>>
    /\ df_cmd = <<>>
    /\ df_doc = <<>>
    /\ df_pc = "idle"
    /\ st_tree = <<>>
    /\ st_flag = FALSE
    /\ st_result = NoResult
    /\ st_pc = "idle"
    /\ cp_rfs = [q \in {} |-> DirNode]
    /\ cp_error = "none"
    /\ cp_existed = FALSE
    /\ cp_links = {}
    /\ pc = "idle"
    /\ args = NoArgs
    /\ config = NoConfig
    /\ queue = <<>>
    /\ calls = <<>>
    /\ failed = {}
    /\ error = NoError
    /\ portage = EmptyFs
    /\ pkg_calls = <<>>
    /\ rootfs = {}
    /\ image = NoImage

SpecPackageConfig == InitPackageConfig /\ [][WritePackageConfig]_vars

\* _copy_to_rootfs called again and again on a staging root.
InitCopy ==
    /\ cp_rfs \in StagingRoots
    /\ cp_error = "none"
    /\ cp_existed = FALSE
    /\ cp_links = {}
    /\ df_annotations = <<>>
    /\ df_cmd = <<>>
    /\ df_doc = <<>>
    /\ df_pc = "idle"
    /\ st_tree = <<>>
    /\ st_flag = FALSE
    /\ st_result = NoResult
    /\ st_pc = "idle"
    /\ pk_fs = EmptyFs
    /\ pk_last = [k \in Categories \X Packages |-> NoWrite]
    /\ pk_error = "none"
    /\ pc = "idle"
    /\ args = NoArgs
    /\ config = NoConfig
    /\ queue = <<>>
    /\ calls = <<>>
    /\ failed = {}
    /\ error = NoError
    /\ portage = EmptyFs
    /\ pkg_calls = <<>>
    /\ rootfs = {}
    /\ image = NoImage

SpecCopy == InitCopy /\ [][CopyToRootfs]_vars

----------------------------------------------------------------------------
(* Claims about main and the steps it sequences *)

IsBdeps(cmd) == Len(cmd) >= 2 /\ cmd[2] = "--onlydeps"
IsRdeps(cmd) == Len(cmd) >= 3 /\ cmd[3] = "--root-deps=rdeps"

\* C1: if the build-time dependency step exits non-zero, the run-time step is
\* never invoked and RootfsError is raised; the run-time step is invoked only
\* after the build-time step has returned 0.
C1_BdepsGatesRdeps ==
    /\ "bdeps" \in failed =>
          /\ \A i \in DOMAIN calls : ~IsRdeps(calls[i])
          /\ pc = "aborted"
          /\ error = [kind |-> "RootfsError", at |-> "_create_rootfs"]
    /\ \A i \in DOMAIN calls :
          IsRdeps(calls[i]) =>
              /\ "bdeps" \notin failed
              /\ \E j \in 1..(i - 1) : IsBdeps(calls[j])

C1_Witness ==
    /\ "bdeps" \in failed
    /\ pc = "aborted"
    /\ \E i \in DOMAIN calls : IsBdeps(calls[i])
    /\ \A i \in DOMAIN calls : ~IsRdeps(calls[i])

FatalSteps == {"_update_builder", "_create_rootfs", "_copy_stdlib"}

\* C3: an error raised by the builder update, the dependency installer or the
\* standard-library provisioner ends the invocation: no later step runs, the
\* image engine is never asked to build, and nothing is cleaned up, so what was
\* written to the staging root stays there.
C3_FatalErrorEndsRun ==
    /\ [](error.at \in FatalSteps =>
            /\ pc = "aborted"
            /\ image = NoImage
            /\ ~IsMusl(args.libc) => {"lib", "usr/lib", "usr/local/lib"} \subseteq rootfs
            /\ error.at = "_copy_stdlib" => "installed packages" \in rootfs)
    /\ [][error.at \in FatalSteps => UNCHANGED mainVars]_vars

C3_Witness ==
    /\ error = [kind |-> "StavesError", at |-> "_copy_stdlib"]
    /\ pc = "aborted"
    /\ args.packaging = "docker"
    /\ args.stdlib
    /\ {"installed packages", "usr/lib/libgcc_s.so.1"} \subseteq rootfs
    /\ image = NoImage

IsRepositoryCommand(cmd) == cmd[1] \in {"eselect", "emaint"} /\ cmd[3] # "list"

RECURSIVE RepositoryCalls(_)
RepositoryCalls(cs) ==
    IF cs = <<>> THEN <<>>
    ELSE IF IsRepositoryCommand(Head(cs)) THEN <<Head(cs)>> \o RepositoryCalls(Tail(cs))
    ELSE RepositoryCalls(Tail(cs))

\* What the claim asks of the repositories visited: add when both the sync type
\* and the URI are given, enable otherwise, then a sync of that repository.
RECURSIVE ExpectedRepositoryCalls(_)
ExpectedRepositoryCalls(rs) ==
    IF rs = <<>> THEN <<>>
    ELSE LET r == Head(rs)
         IN  <<(IF r.type # "" /\ r.uri # ""
                THEN <<"eselect", "repository", "add", r.name, r.type, r.uri>>
                ELSE <<"eselect", "repository", "enable", r.name>>),
               (<<"emaint", "sync", "--repo", r.name>>)>>
             \o ExpectedRepositoryCalls(Tail(rs))

Visited ==
    IF pc \in {"env", "repositories"} THEN <<>>
    ELSE IF pc = "add_repository"
    THEN SubSeq(config.repositories, 1, Len(config.repositories) - Len(queue))
    ELSE config.repositories

\* C4: each repository is added (sync type and URI both given) or enabled
\* (otherwise) and then synced; a non-zero exit of any of these commands aborts
\* nothing: the sync still runs, the remaining repositories are still visited
\* and main goes on past the loop.
C4_RepositoriesBestEffort ==
    /\ RepositoryCalls(calls) = ExpectedRepositoryCalls(Visited)
    /\ error.at \notin {"repositories", "add_repository"}
    /\ pc = "add_repository" => queue # <<>>

C4_Witness ==
    /\ "repository" \in failed
    /\ Len(config.repositories) >= 2
    /\ \E i \in DOMAIN calls : IsBdeps(calls[i])
    /\ RepositoryCalls(calls) = ExpectedRepositoryCalls(config.repositories)

ReservedKeys == {<<"env">>, <<"locale">>, <<"annotations">>}

\* C10: _write_package_config is called only for package identifiers, never for
\* the reserved keys env, locale and annotations, so a document with non-empty
\* annotations and packaging 'docker' is not stopped at the package configs.
C10_ReservedKeysNotPackages ==
    /\ \A i \in DOMAIN pkg_calls : pkg_calls[i] \notin ReservedKeys
    /\ error.at = "write_package_config" =>
          pkg_calls[Len(pkg_calls)] \notin ReservedKeys

----------------------------------------------------------------------------
(* Claims about _create_dockerfile *)

\* C2: for every non-empty annotation mapping the document holds a label
\* instruction listing every annotation as a quoted "key"="value" pair; for
\* {"a": "b"} and ["run"] it holds that label and an entrypoint instruction with
\* exactly the one quoted element "run".
C2_LabelListsAnnotations ==
    (df_pc = "done" /\ df_annotations # <<>>) =>
        /\ \E i \in DOMAIN Lines(df_doc) :
              /\ Instruction(Lines(df_doc)[i]) = "LABEL"
              /\ \A k \in DOMAIN df_annotations :
                    Contains(Lines(df_doc)[i], LabelPair(df_annotations[k]))
        /\ (df_annotations = <<(<<"a", "b">>)>> /\ df_cmd = <<"run">>) =>
              \E i \in DOMAIN Lines(df_doc) :
                  /\ Instruction(Lines(df_doc)[i]) = "ENTRYPOINT"
                  /\ Bracketed(Lines(df_doc)[i]) = <<"\"", "run", "\"">>

\* C9: for an empty annotation mapping the document has no label instruction:
\* its instructions are FROM, COPY and ENTRYPOINT, in that order, whatever the
\* command vector.
C9_NoLabelWhenEmpty ==
    (df_pc = "done" /\ df_annotations = <<>>) =>
        /\ Instructions(df_doc) = <<"FROM", "COPY", "ENTRYPOINT">>
        /\ ~Contains(df_doc, <<"LABEL">>)

C9_Witness ==
    /\ df_pc = "done"
    /\ df_annotations = <<>>
    /\ Len(df_cmd) = MaxCmd
    /\ Instructions(df_doc) = <<"FROM", "COPY", "ENTRYPOINT">>

----------------------------------------------------------------------------
(* Claims about _write_package_config *)

\* C5: after any sequence of writes for a package and category, the file at the
\* path of the identifier's "/"-split segments holds exactly one line: the
\* identifier, then the space-joined values of the last write (overwrite, not
\* append).
C5_OverwriteNotAppend ==
    \A k \in Categories \X Packages :
        pk_last[k].n > 0 =>
            LET path == <<(<<"etc">>), (<<"portage">>), (<<k[1]>>)>> \o Split(k[2], "/")
                lines == Split(pk_fs[path], linesep)
            IN  /\ path \in DOMAIN pk_fs
                /\ Len(lines) = 2
                /\ lines[2] = <<>>
                /\ lines[1] = k[2] \o <<" ">>
                                \o Join([i \in DOMAIN pk_last[k].values |->
                                            <<pk_last[k].values[i]>>], <<" ">>)

C5_Witness ==
    \E k \in Categories \X Packages :
        /\ pk_last[k].n = 2
        /\ Len(pk_last[k].values) = 1
        /\ Len(Split(k[2], "/")) = 2
        /\ pk_fs[package_config_path(k[1], k[2])] = k[2] \o <<" ", Flags[1], linesep>>

----------------------------------------------------------------------------
(* Claims about _copy_stdlib *)

HasFile(tree, name) == \E i \in DOMAIN tree : name \in tree[i]

\* C8: _copy_stdlib raises StavesError exactly when libgcc_s.so.1 is not in the
\* toolchain tree, or libstdc++.so.6 is requested and not in it; with libgcc
\* missing nothing is copied; without the flag a missing libstdc++ is no error
\* and libstdc++ is never copied.
C8_StdlibErrors ==
    st_pc = "done" =>
        /\ (st_result.error = "StavesError") <=>
              (~HasFile(st_tree, libgcc) \/ (st_flag /\ ~HasFile(st_tree, libstdcpp)))
        /\ st_result.error \in {"none", "StavesError"}
        /\ ~HasFile(st_tree, libgcc) => st_result.copied = {}
        /\ ~st_flag => \A c \in st_result.copied : c.src[2] # libstdcpp
        /\ (st_result.error = "none") =>
              /\ \E c \in st_result.copied : c.src[2] = libgcc
              /\ st_flag => \E c \in st_result.copied : c.src[2] = libstdcpp

C8_Witness ==
    /\ st_pc = "done"
    /\ ~st_flag
    /\ HasFile(st_tree, libgcc)
    /\ ~HasFile(st_tree, libstdcpp)
    /\ st_result.error = "none"
    /\ st_result.copied # {}

----------------------------------------------------------------------------
(* Claims about _copy_to_rootfs *)

\* C6: copying to a destination path that already exists in the staging root
\* is an error surfaced to the caller, for every source kind (symbolic link,
\* directory, regular file): never silently ignored or overwritten.
C6_ExistingDestinationIsError ==
    cp_existed => cp_error # "none"

\* C7: every symbolic link copied, matched by the pattern or found in a copied
\* directory subtree, is a symbolic link at its destination with the source's
\* target string; a link is never dereferenced.
C7_LinksKeptVerbatim ==
    \A l \in cp_links :
        /\ l[2] \in DOMAIN cp_rfs
        /\ cp_rfs[l[2]].kind = "link"
        /\ cp_rfs[l[2]].data = HostFs[l[1]].data

====
